---- MODULE Spec2Model ----
(***************************************************************************)
(* clevo-fancontrol: a daemon that reads the CPU/GPU temperature from the  *)
(* embedded controller (EC), keeps a circular history of the samples, maps *)
(* the windowed maximum to a fan duty and writes the duty back to the EC.  *)
(*                                                                         *)
(* The model follows src/clevo-fancontrol.c function by function.  Float   *)
(* arithmetic is IEEE-754 binary32 with round-to-nearest-even, every       *)
(* operation rounded (the x86-64 build of the Makefile).                   *)
(***************************************************************************)
EXTENDS Integers, Sequences, FiniteSets, TLC

(***************************************************************************)
(* Program constants.                                                      *)
(***************************************************************************)
EC_SC == 102
EC_DATA == 98
IBF == 1
OBF == 0
EC_SC_READ_CMD == 128
EC_REG_CPU_TEMP == 7
EC_REG_GPU_TEMP == 205
EC_REG_FAN_DUTY == 206
EC_REG_FAN_RPMS_HI == 208
EC_REG_FAN_RPMS_LO == 209
MIN_DUTY == 10
MIN_DUTY_TEMP == 40
MAX_DUTY == 100
MAX_DUTY_TEMP == 70
\* the literal 100 of the polling loop, while (... && (i++ < 100)) and if (i >= 100)
WAIT_LIMIT == 100
\* ec_write_fan_duty: ec_io_do(0x99, 0x01, v_i)
FAN_DUTY_CMD == 153
FAN_DUTY_PORT == 1
\* the numerator of the RPM conversion, 2156220 / raw_rpm
RPM_NUMERATOR == 2156220

(***************************************************************************)
(* Bounds of the model.                                                    *)
(***************************************************************************)
\* TEMP_HISTORY_LEN is RATE * TEMP_HISTORY_DURATION, a compile-time
\* configuration (25 slots by default); the model takes a short window.
TEMP_HISTORY_LEN == 3
\* the temperature bytes the EC returns: 0 and MaxTempStep values 55, 70, ...
MaxTempStep == 1
\* the polls at which the EC first shows the awaited flag value: the first
\* HitEdge + 1 polls, the last HitEdge + 1 polls, or never
HitEdge == 1
\* duty requests handed to ec_write_fan_duty: -ReqSpan .. 100 + ReqSpan + 50
ReqSpan == 5

(***************************************************************************)
(* IEEE-754 binary32 values: [neg, m, e] stands for (+/-) m * 2^e with     *)
(* m = 0 or 2^23 <= m < 2^24.                                              *)
(***************************************************************************)
Pow2(k) == 2 ^ k

FZero == [neg |-> FALSE, m |-> 0, e |-> 0]

\* the number of bits of n > 0: the k with 2^(k-1) <= n < 2^k
BitLen(n) == CHOOSE k \in 1..31 : Pow2(k - 1) <= n /\ (k = 31 \/ n < Pow2(k))

\* Round the integer mant * 2^e (sticky: nonzero bits were dropped below it)
\* to 24 significant bits, ties to even.
FRound(neg, mant, e, sticky) ==
    IF mant = 0 THEN FZero
    ELSE LET n == BitLen(mant)
         IN  IF n <= 24
             THEN [neg |-> neg, m |-> mant * Pow2(24 - n), e |-> e - (24 - n)]
             ELSE LET sh == n - 24
                      q == mant \div Pow2(sh)
                      r == mant % Pow2(sh)
                      half == Pow2(sh - 1)
                      up == r > half \/ (r = half /\ (sticky \/ q % 2 = 1))
                      qq == IF up THEN q + 1 ELSE q
                  IN  IF qq = Pow2(24)
                      THEN [neg |-> neg, m |-> Pow2(23), e |-> e + sh + 1]
                      ELSE [neg |-> neg, m |-> qq, e |-> e + sh]

\* (float) n for an int n
FFromInt(n) == FRound(n < 0, IF n < 0 THEN -n ELSE n, 0, FALSE)

FNeg(a) == [a EXCEPT !.neg = ~a.neg]

\* a + b, the exact sum rounded once: the operand of the larger exponent
\* gets up to six guard bits, what the other one has below them is sticky
FAdd(a, b) ==
    IF a.m = 0 THEN b
    ELSE IF b.m = 0 THEN a
    ELSE LET hi == IF a.e >= b.e THEN a ELSE b
             lo == IF a.e >= b.e THEN b ELSE a
             diff == hi.e - lo.e
             sh == IF diff < 6 THEN diff ELSE 6
             drop == IF diff - sh > 24 THEN 24 ELSE diff - sh
             H == hi.m * Pow2(sh)
             L == lo.m \div Pow2(drop)
             sticky == lo.m % Pow2(drop) # 0
             s == IF hi.neg = lo.neg THEN H + L
                  ELSE IF sticky THEN H - L - 1 ELSE H - L
         IN  IF s < 0 THEN FRound(~hi.neg, -s, hi.e - sh, FALSE)
             ELSE FRound(hi.neg, s, hi.e - sh, sticky)

FSub(a, b) == FAdd(a, FNeg(b))

\* a * b: the 48-bit product of the mantissas from 12-bit halves, rounded once
FMul(a, b) ==
    IF a.m = 0 \/ b.m = 0 THEN FZero
    ELSE LET ah == a.m \div 4096
             al == a.m % 4096
             bh == b.m \div 4096
             bl == b.m % 4096
             mid == ah * bl + al * bh
             t == al * bl + (mid % 4096) * 4096
             L == t % Pow2(24)
             H == ah * bh + (mid \div 4096) + (t \div Pow2(24))
         IN  FRound(a.neg # b.neg, H * 64 + (L \div Pow2(18)),
                    a.e + b.e + 18, L % Pow2(18) # 0)

\* one step of long division: `bits` more quotient bits
DivStep(p, d, bits) ==
    [q |-> p.q * Pow2(bits) + ((p.r * Pow2(bits)) \div d),
     r |-> (p.r * Pow2(bits)) % d]

\* floor(n * 2^k / d) and the remainder, for k = 24 or 25 and n, d < 2^24,
\* by long division, six bits at a time
LongDiv(n, d, k) ==
    LET p0 == [q |-> n \div d, r |-> n % d]
        p24 == DivStep(DivStep(DivStep(DivStep(p0, d, 6), d, 6), d, 6), d, 6)
    IN  IF k = 24 THEN p24 ELSE DivStep(p24, d, 1)

\* a / b (b nonzero), the exact quotient rounded once
FDiv(a, b) ==
    IF a.m = 0 THEN FZero
    ELSE LET k == IF a.m >= b.m THEN 24 ELSE 25
             d == LongDiv(a.m, b.m, k)
         IN  FRound(a.neg # b.neg, d.q, a.e - b.e - k, d.r # 0)

\* a < b
FLess(a, b) ==
    LET mag(x, y) == x.e < y.e \/ (x.e = y.e /\ x.m < y.m)
    IN  IF a.m = 0 THEN b.m # 0 /\ ~b.neg
        ELSE IF b.m = 0 THEN a.neg
        ELSE IF a.neg # b.neg THEN a.neg
        ELSE IF a.neg THEN mag(b, a) ELSE mag(a, b)

\* (int) a: truncation toward zero
FToInt(a) ==
    LET mag == IF a.e >= 0 THEN a.m * Pow2(a.e)
               ELSE IF a.e <= -24 THEN 0
               ELSE a.m \div Pow2(-a.e)
    IN  IF a.neg THEN -mag ELSE mag

\* the literal 0.2f: the binary32 value nearest to 2/10
linear_component == FDiv(FFromInt(2), FFromInt(10))

(***************************************************************************)
(* Pure functions of the program.                                          *)
(***************************************************************************)
max(a, b) == IF a > b THEN a ELSE b

temp_to_duty_nofloor(temp) ==
    LET x0 == FDiv(FSub(FFromInt(temp), FFromInt(MIN_DUTY_TEMP)),
                   FSub(FFromInt(MAX_DUTY_TEMP), FFromInt(MIN_DUTY_TEMP)))
        x == IF FLess(FFromInt(1), x0) THEN FFromInt(1) ELSE x0
        y == FDiv(FMul(x, FAdd(x, linear_component)),
                  FAdd(FFromInt(1), linear_component))
    IN  FToInt(FAdd(FMul(y, FSub(FFromInt(MAX_DUTY), FFromInt(MIN_DUTY))),
                    FFromInt(MIN_DUTY)))

temp_to_duty_noceiling(temp) ==
    LET x0 == FDiv(FSub(FFromInt(temp), FFromInt(MIN_DUTY_TEMP)),
                   FSub(FFromInt(MAX_DUTY_TEMP), FFromInt(MIN_DUTY_TEMP)))
        x == IF FLess(x0, FZero) THEN FZero ELSE x0
        y == FDiv(FMul(x, FAdd(x, linear_component)),
                  FAdd(FFromInt(1), linear_component))
    IN  FToInt(FAdd(FMul(y, FSub(FFromInt(MAX_DUTY), FFromInt(MIN_DUTY))),
                    FFromInt(MIN_DUTY)))

temp_to_duty_rounded(temp) ==
    LET x0 == FDiv(FSub(FFromInt(temp), FFromInt(MIN_DUTY_TEMP)),
                   FSub(FFromInt(MAX_DUTY_TEMP), FFromInt(MIN_DUTY_TEMP)))
        x1 == IF FLess(x0, FZero) THEN FZero ELSE x0
        x == IF FLess(FFromInt(1), x1) THEN FFromInt(1) ELSE x1
        y == FDiv(FMul(x, FAdd(x, linear_component)),
                  FAdd(FFromInt(1), linear_component))
    IN  FToInt(FAdd(FAdd(FMul(y, FSub(FFromInt(MAX_DUTY), FFromInt(MIN_DUTY))),
                         FFromInt(MIN_DUTY)),
                    FDiv(FFromInt(1), FFromInt(2))))

temp_to_duty(temp) ==
    LET x0 == FDiv(FSub(FFromInt(temp), FFromInt(MIN_DUTY_TEMP)),
                   FSub(FFromInt(MAX_DUTY_TEMP), FFromInt(MIN_DUTY_TEMP)))
        x1 == IF FLess(x0, FZero) THEN FZero ELSE x0
        x == IF FLess(FFromInt(1), x1) THEN FFromInt(1) ELSE x1
        y == FDiv(FMul(x, FAdd(x, linear_component)),
                  FAdd(FFromInt(1), linear_component))
    IN  FToInt(FAdd(FMul(y, FSub(FFromInt(MAX_DUTY), FFromInt(MIN_DUTY))),
                    FFromInt(MIN_DUTY)))

\* the value byte ec_write_fan_duty hands to ec_io_do (a uint8_t parameter)
fan_duty_byte_noclamp(duty_percentage) ==
    FToInt(FMul(FDiv(FFromInt(duty_percentage), FFromInt(100)), FFromInt(255))) % 256

fan_duty_byte(duty_percentage) ==
    LET d1 == IF duty_percentage < 10 THEN 10 ELSE duty_percentage
        d == IF d1 > 100 THEN 100 ELSE d1
    IN  FToInt(FMul(FDiv(FFromInt(d), FFromInt(100)), FFromInt(255))) % 256

\* ec_query_fan_duty: the raw duty byte as a percentage
fan_duty_percent(raw_duty) ==
    FToInt(FMul(FDiv(FFromInt(raw_duty), FFromInt(255)), FFromInt(100)))

\* ec_query_fan_rpms: the two RPM bytes as revolutions per minute
fan_rpms(rpm_hi, rpm_lo) ==
    LET raw_rpm == rpm_hi * 256 + rpm_lo
    IN  IF raw_rpm > 0 THEN RPM_NUMERATOR \div raw_rpm ELSE 0

(***************************************************************************)
(* Inputs from the hardware and the operating system.                      *)
(***************************************************************************)
\* temperature bytes read from the CPU and GPU registers
Temps == {0} \cup {MIN_DUTY_TEMP + 15 * k : k \in 1..MaxTempStep}
\* bytes read from the fan duty and fan RPM registers
DiagBytes == {0, 255}
\* the index of the first status poll that shows the awaited flag value;
\* WAIT_LIMIT + 1 is past the last poll a wait can make: the flag never shows
HitTimes == (0..HitEdge) \cup ((WAIT_LIMIT - HitEdge)..(WAIT_LIMIT + 1))
\* duty requests of the write harness
Requests == (0 - ReqSpan)..(150 + ReqSpan)
\* results of ioperm(): 0 on success, -1 on failure
IopermResults == {0, -1}

\* the float conversions, tabulated over the arguments that occur
fan_duty_byte_tab ==
    [d \in Requests \cup (MIN_DUTY..MAX_DUTY) |-> fan_duty_byte(d)]
fan_duty_percent_tab == [b \in 0..255 |-> fan_duty_percent(b)]

(***************************************************************************)
(* State.                                                                  *)
(***************************************************************************)
VARIABLES
    pc,                \* control location
    caller,            \* the call site of the EC access in progress
    print_state,       \* the PRINT_STATE build option, 0 or 1
    temp_history,      \* static int temp_history[TEMP_HISTORY_LEN]
    temp_history_pos,  \* static int temp_history_pos
    prev_duty,         \* main: int prev_duty
    cpu_temp,          \* value of ec_query_cpu_temp(), -1 when not evaluated
    gpu_temp,          \* value of ec_query_gpu_temp(), -1 when not evaluated
    temp_cur,          \* main: int temp_cur
    temp_max,          \* main: int temp_max
    new_duty,          \* main: int new_duty
    raw_rpm_hi,        \* ec_query_fan_rpms: int raw_rpm_hi
    rpms,              \* value of ec_query_fan_rpms(), -1 when not evaluated
    fan_duty,          \* value of ec_query_fan_duty(), -1 when not evaluated
    reg,               \* ec_io_read: port, ec_io_do: port
    cmd,               \* ec_io_do: cmd
    value,             \* ec_io_do: value
    arg,               \* argument of the function a harness applies
    result,            \* its return value
    granted,           \* I/O ports ioperm() has granted
    ioperm_calls,      \* the ioperm() calls made, <<port, result>>
    exit_status,       \* -1 while the process runs
    touched,           \* some inb() or outb() has been executed
    ev,                \* what the last step did at the ports and on stdout
    ops,               \* port operations of the EC access in progress or just returned
    cyc,               \* what the current cycle has done so far
    cycle,             \* 0 before the loop, 1 in the first cycle, 2 afterwards
    recent,            \* the last TEMP_HISTORY_LEN samples pushed, oldest first
    old_duty,          \* new_duty of the previous cycle, -1 in the first
    last_written       \* the duty of the last ec_write_fan_duty call, -1 if none

ctl == <<pc, caller>>
build == <<print_state>>
hist == <<temp_history, temp_history_pos, recent>>
locals == <<prev_duty, cpu_temp, gpu_temp, temp_cur, temp_max, new_duty,
            raw_rpm_hi, rpms, fan_duty, old_duty>>
params == <<reg, cmd, value, last_written>>
harness == <<arg, result>>
proc == <<granted, ioperm_calls, exit_status>>
vars == <<pc, caller, print_state, temp_history, temp_history_pos, prev_duty,
          cpu_temp, gpu_temp, temp_cur, temp_max, new_duty, raw_rpm_hi, rpms,
          fan_duty, reg, cmd, value, arg, result, granted, ioperm_calls,
          exit_status, touched, ev, ops, cyc, cycle, recent, old_duty,
          last_written>>

Slots == 0..(TEMP_HISTORY_LEN - 1)

NoEvent == [op |-> "none", port |-> 0, val |-> 0, flag |-> 0, want |-> 0,
            i |-> 0, polls |-> 0, warned |-> FALSE]
\* the counters of a cycle: calls of the four queries, duty bytes sent to the
\* EC, whether a wait of a temperature read timed out, and the duty last
\* written when the cycle began
NewCycle(before) == [cpu |-> 0, gpu |-> 0, rpm |-> 0, duty |-> 0, writes |-> 0,
                     degraded |-> FALSE, before |-> before]

\* static storage: zero-initialised history and cursor; nothing has run yet
Boot ==
    /\ caller = "none"
    /\ temp_history = [s \in Slots |-> 0]
    /\ temp_history_pos = 0
    /\ prev_duty = 0 /\ cpu_temp = -1 /\ gpu_temp = -1
    /\ temp_cur = 0 /\ temp_max = 0 /\ new_duty = 0
    /\ raw_rpm_hi = 0 /\ rpms = -1 /\ fan_duty = -1
    /\ reg = 0 /\ cmd = 0 /\ value = 0
    /\ result = -1
    /\ granted = {} /\ ioperm_calls = <<>> /\ exit_status = -1
    /\ touched = FALSE
    /\ ev = NoEvent /\ ops = <<>> /\ cyc = NewCycle(-1) /\ cycle = 0
    /\ last_written = -1
    /\ recent = [k \in 1..TEMP_HISTORY_LEN |-> 0]
    /\ old_duty = -1

Init ==
    /\ pc = "main"
    /\ print_state \in {0, 1}
    /\ arg = 0
    /\ Boot

(***************************************************************************)
(* main: startup.                                                          *)
(***************************************************************************)
\* for (i = 0; i < TEMP_HISTORY_LEN; i++) temp_history[i] = 0;
CleanHistory ==
    /\ pc = "main"
    /\ temp_history' = [s \in Slots |-> 0]
    /\ pc' = "ioperm"
    /\ ev' = NoEvent
    /\ UNCHANGED <<caller, build, temp_history_pos, recent, locals, params,
                   harness, proc, touched, ops, cyc, cycle>>

\* ioperm(EC_DATA, 1, 1) != 0 || ioperm(EC_SC, 1, 1) != 0: the second call
\* is made only when the first succeeded
MapPortsAlways(r1, r2) ==
    /\ pc = "ioperm"
    /\ ioperm_calls' = IF r1 # 0 THEN <<<<EC_DATA, r1>>>>
                       ELSE <<<<EC_DATA, r1>>, <<EC_SC, r2>>>>
    /\ granted' = (IF r1 = 0 THEN {EC_DATA} ELSE {})
                      \cup (IF r1 = 0 /\ r2 = 0 THEN {EC_SC} ELSE {})
    /\ prev_duty' = -1
    /\ cycle' = 1
    /\ pc' = "sample"
    /\ ev' = NoEvent
    /\ UNCHANGED exit_status
    /\ UNCHANGED <<caller, build, hist, cpu_temp, gpu_temp, temp_cur,
                   temp_max, new_duty, raw_rpm_hi, rpms, fan_duty, old_duty,
                   params, harness, touched, ops, cyc>>

MapPortsPrevMin(r1, r2) ==
    /\ pc = "ioperm"
    /\ ioperm_calls' = IF r1 # 0 THEN <<<<EC_DATA, r1>>>>
                       ELSE <<<<EC_DATA, r1>>, <<EC_SC, r2>>>>
    /\ granted' = (IF r1 = 0 THEN {EC_DATA} ELSE {})
                      \cup (IF r1 = 0 /\ r2 = 0 THEN {EC_SC} ELSE {})
    /\ IF r1 # 0 \/ r2 # 0
       THEN \* printf("could not get access to EC, got root?\n"); return 1;
            /\ ev' = [NoEvent EXCEPT !.op = "printf_fatal"]
            /\ exit_status' = 1
            /\ pc' = "exit"
            /\ UNCHANGED <<prev_duty, cycle>>
       ELSE \* int prev_duty = -1; while (1)
            /\ ev' = NoEvent
            /\ prev_duty' = MIN_DUTY
            /\ cycle' = 1
            /\ pc' = "sample"
            /\ UNCHANGED exit_status
    /\ UNCHANGED <<caller, build, hist, cpu_temp, gpu_temp, temp_cur,
                   temp_max, new_duty, raw_rpm_hi, rpms, fan_duty, old_duty,
                   params, harness, touched, ops, cyc>>

MapPorts(r1, r2) ==
    /\ pc = "ioperm"
    /\ ioperm_calls' = IF r1 # 0 THEN <<<<EC_DATA, r1>>>>
                       ELSE <<<<EC_DATA, r1>>, <<EC_SC, r2>>>>
    /\ granted' = (IF r1 = 0 THEN {EC_DATA} ELSE {})
                      \cup (IF r1 = 0 /\ r2 = 0 THEN {EC_SC} ELSE {})
    /\ IF r1 # 0 \/ r2 # 0
       THEN \* printf("could not get access to EC, got root?\n"); return 1;
            /\ ev' = [NoEvent EXCEPT !.op = "printf_fatal"]
            /\ exit_status' = 1
            /\ pc' = "exit"
            /\ UNCHANGED <<prev_duty, cycle>>
       ELSE \* int prev_duty = -1; while (1)
            /\ ev' = NoEvent
            /\ prev_duty' = -1
            /\ cycle' = 1
            /\ pc' = "sample"
            /\ UNCHANGED exit_status
    /\ UNCHANGED <<caller, build, hist, cpu_temp, gpu_temp, temp_cur,
                   temp_max, new_duty, raw_rpm_hi, rpms, fan_duty, old_duty,
                   params, harness, touched, ops, cyc>>

(***************************************************************************)
(* EC access layer.                                                        *)
(***************************************************************************)
\* bit `flag` of a status byte
FlagOf(data, flag) == (data \div Pow2(flag)) % 2

\* inb(EC_SC) at poll number k of a wait: the awaited flag has the value
\* `want` from poll `hit` on (the other bits are read as 0)
Polled(k, flag, want, hit) == (IF k >= hit THEN want ELSE 1 - want) * Pow2(flag)

RECURSIVE ec_io_wait_loop_preinc(_, _, _, _, _, _)
ec_io_wait_loop_preinc(data, i, polls, flag, want, hit) ==
    IF FlagOf(data, flag) # want
    THEN IF i + 1 < WAIT_LIMIT
         THEN ec_io_wait_loop_preinc(Polled(polls, flag, want, hit), i + 1,
                                     polls + 1, flag, want, hit)
         ELSE [data |-> data, i |-> i + 1, polls |-> polls]
    ELSE [data |-> data, i |-> i, polls |-> polls]

\* while ((((data >> flag) & 0x1) != value) && (i++ < 100))
\*     { usleep(1000); data = inb(port); }
\* i++ is evaluated only when the flag differs, also when the test then fails
RECURSIVE ec_io_wait_loop(_, _, _, _, _, _)
ec_io_wait_loop(data, i, polls, flag, want, hit) ==
    IF FlagOf(data, flag) # want
    THEN IF i < WAIT_LIMIT
         THEN ec_io_wait_loop(Polled(polls, flag, want, hit), i + 1,
                              polls + 1, flag, want, hit)
         ELSE [data |-> data, i |-> i + 1, polls |-> polls]
    ELSE [data |-> data, i |-> i, polls |-> polls]

\* ec_io_wait(port, flag, value): the polls made, the final i and data, and
\* whether the "wait_ec error" line was printed
ec_io_wait(port, flag, want, hit) ==
    LET r == ec_io_wait_loop(Polled(0, flag, want, hit), 0, 1, flag, want, hit)
    IN  [op |-> "wait", port |-> port, val |-> r.data, flag |-> flag,
         want |-> want, i |-> r.i, polls |-> r.polls,
         warned |-> r.i >= WAIT_LIMIT]

\* the two waits the program makes, ec_io_wait(EC_SC, IBF, 0) and
\* ec_io_wait(EC_SC, OBF, 1), tabulated over the hit times
wait_ibf_clear == [hit \in HitTimes |-> ec_io_wait(EC_SC, IBF, 0, hit)]
wait_obf_set == [hit \in HitTimes |-> ec_io_wait(EC_SC, OBF, 1, hit)]

\* entries of the port-operation trace of one EC access
WaitOp(w) == [op |-> "wait", a |-> w.flag, b |-> w.want]
OutOp(v, port) == [op |-> "outb", a |-> v, b |-> port]
InOp(port, v) == [op |-> "inb", a |-> port, b |-> v]

\* the bytes a register can return
RegBytes(site) ==
    IF site \in {"cpu", "gpu"} THEN Temps
    ELSE IF site = "harness" THEN 0..255
    ELSE DiagBytes

ReadWaitAbort(hit) ==
    /\ pc \in {"rd_wait1", "rd_wait2", "rd_wait3"}
    /\ LET w == IF pc = "rd_wait3" THEN wait_obf_set[hit]
                ELSE wait_ibf_clear[hit]
       IN  /\ ev' = w
           /\ ops' = Append(ops, WaitOp(w))
           /\ cyc' = IF w.warned /\ caller \in {"cpu", "gpu"}
                     THEN [cyc EXCEPT !.degraded = TRUE] ELSE cyc
    /\ pc' = CASE (IF pc = "rd_wait3" THEN wait_obf_set[hit]
                     ELSE wait_ibf_clear[hit]).warned -> "exit"
               [] OTHER -> IF pc = "rd_wait1" THEN "rd_cmd"
                           ELSE IF pc = "rd_wait2" THEN "rd_addr"
                           ELSE "rd_data"
    /\ exit_status' = IF (IF pc = "rd_wait3" THEN wait_obf_set[hit]
                          ELSE wait_ibf_clear[hit]).warned THEN 1
                      ELSE exit_status
    /\ touched' = TRUE
    /\ UNCHANGED <<caller, build, hist, locals, params, harness, granted,
                   ioperm_calls, cycle>>

ReadWaitRetry(hit) ==
    /\ pc \in {"rd_wait1", "rd_wait2", "rd_wait3"}
    /\ LET w == IF pc = "rd_wait3" THEN wait_obf_set[hit]
                ELSE wait_ibf_clear[hit]
       IN  /\ ev' = w
           /\ ops' = IF w.warned THEN <<>> ELSE Append(ops, WaitOp(w))
           /\ cyc' = IF w.warned /\ caller \in {"cpu", "gpu"}
                     THEN [cyc EXCEPT !.degraded = TRUE] ELSE cyc
           /\ pc' = IF w.warned THEN "rd_wait1"
                    ELSE CASE pc = "rd_wait1" -> "rd_cmd"
                           [] pc = "rd_wait2" -> "rd_addr"
                           [] pc = "rd_wait3" -> "rd_data"
    /\ touched' = TRUE
    /\ UNCHANGED <<caller, build, hist, locals, params, harness, proc, cycle>>

\* ec_io_read: the three waits
ReadWait(hit) ==
    /\ pc \in {"rd_wait1", "rd_wait2", "rd_wait3"}
    /\ LET w == IF pc = "rd_wait3" THEN wait_obf_set[hit]
                ELSE wait_ibf_clear[hit]
       IN  /\ ev' = w
           /\ ops' = Append(ops, WaitOp(w))
           /\ cyc' = IF w.warned /\ caller \in {"cpu", "gpu"}
                     THEN [cyc EXCEPT !.degraded = TRUE] ELSE cyc
    /\ pc' = CASE pc = "rd_wait1" -> "rd_cmd"
               [] pc = "rd_wait2" -> "rd_addr"
               [] pc = "rd_wait3" -> "rd_data"
    /\ touched' = TRUE
    /\ UNCHANGED <<caller, build, hist, locals, params, harness, proc, cycle>>

ReadOutDataFirst ==
    /\ pc \in {"rd_cmd", "rd_addr"}
    /\ LET v == IF pc = "rd_cmd" THEN reg ELSE EC_SC_READ_CMD
           port == IF pc = "rd_cmd" THEN EC_DATA ELSE EC_SC
       IN  /\ ev' = [NoEvent EXCEPT !.op = "outb", !.port = port, !.val = v]
           /\ ops' = Append(ops, OutOp(v, port))
    /\ pc' = IF pc = "rd_cmd" THEN "rd_wait2" ELSE "rd_wait3"
    /\ touched' = TRUE
    /\ UNCHANGED <<caller, build, hist, locals, params, harness, proc, cyc,
                   cycle>>

\* ec_io_read: outb(EC_SC_READ_CMD, EC_SC) and outb(port, EC_DATA)
ReadOut ==
    /\ pc \in {"rd_cmd", "rd_addr"}
    /\ LET v == IF pc = "rd_cmd" THEN EC_SC_READ_CMD ELSE reg
           port == IF pc = "rd_cmd" THEN EC_SC ELSE EC_DATA
       IN  /\ ev' = [NoEvent EXCEPT !.op = "outb", !.port = port, !.val = v]
           /\ ops' = Append(ops, OutOp(v, port))
    /\ pc' = IF pc = "rd_cmd" THEN "rd_wait2" ELSE "rd_wait3"
    /\ touched' = TRUE
    /\ UNCHANGED <<caller, build, hist, locals, params, harness, proc, cyc,
                   cycle>>

\* ec_io_read: return inb(EC_DATA), and what the caller does with the byte
ReadIn(b) ==
    /\ pc = "rd_data"
    /\ b \in RegBytes(caller)
    /\ ev' = [NoEvent EXCEPT !.op = "inb", !.port = EC_DATA, !.val = b]
    /\ ops' = Append(ops, InOp(EC_DATA, b))
    /\ touched' = TRUE
    /\ cpu_temp' = IF caller = "cpu" THEN b ELSE cpu_temp
    /\ gpu_temp' = IF caller = "gpu" THEN b ELSE gpu_temp
    /\ raw_rpm_hi' = IF caller = "rpm_hi" THEN b ELSE raw_rpm_hi
    /\ rpms' = IF caller = "rpm_lo" THEN fan_rpms(raw_rpm_hi, b) ELSE rpms
    /\ fan_duty' = IF caller = "fan_duty" THEN fan_duty_percent_tab[b]
                   ELSE fan_duty
    /\ result' = IF caller = "harness" THEN b ELSE result
    /\ pc' = CASE caller \in {"cpu", "gpu"} -> "sample"
               [] caller = "rpm_hi" -> "query_rpm_lo"
               [] caller \in {"rpm_lo", "fan_duty"} -> "print"
               [] caller = "harness" -> "done"
    /\ caller' = "none"
    /\ UNCHANGED <<build, hist, prev_duty, temp_cur, temp_max, new_duty,
                   old_duty, params, arg, proc, cyc, cycle>>

DoWaitNoConfirm(hit) ==
    /\ pc \in {"wr_wait1", "wr_wait2", "wr_wait3", "wr_wait4"}
    /\ IF pc = "wr_wait4"
       THEN ev' = NoEvent /\ ops' = ops
       ELSE LET w == wait_ibf_clear[hit]
            IN  ev' = w /\ ops' = Append(ops, WaitOp(w))
    /\ pc' = CASE pc = "wr_wait1" -> "wr_cmd"
               [] pc = "wr_wait2" -> "wr_addr"
               [] pc = "wr_wait3" -> "wr_val"
               [] pc = "wr_wait4" -> "wr_ret"
    /\ touched' = TRUE
    /\ UNCHANGED <<caller, build, hist, locals, params, harness, proc, cyc,
                   cycle>>

\* ec_io_do: the four waits for IBF clear
DoWait(hit) ==
    /\ pc \in {"wr_wait1", "wr_wait2", "wr_wait3", "wr_wait4"}
    /\ LET w == wait_ibf_clear[hit]
       IN  /\ ev' = w
           /\ ops' = Append(ops, WaitOp(w))
    /\ pc' = CASE pc = "wr_wait1" -> "wr_cmd"
               [] pc = "wr_wait2" -> "wr_addr"
               [] pc = "wr_wait3" -> "wr_val"
               [] pc = "wr_wait4" -> "wr_ret"
    /\ touched' = TRUE
    /\ UNCHANGED <<caller, build, hist, locals, params, harness, proc, cyc,
                   cycle>>

\* ec_io_do: outb(cmd, EC_SC), outb(port, EC_DATA), outb(value, EC_DATA)
DoOut ==
    /\ pc \in {"wr_cmd", "wr_addr", "wr_val"}
    /\ LET v == CASE pc = "wr_cmd" -> cmd
                  [] pc = "wr_addr" -> reg
                  [] pc = "wr_val" -> value
           port == IF pc = "wr_cmd" THEN EC_SC ELSE EC_DATA
       IN  /\ ev' = [NoEvent EXCEPT !.op = "outb", !.port = port, !.val = v]
           /\ ops' = Append(ops, OutOp(v, port))
    /\ cyc' = IF pc = "wr_val" THEN [cyc EXCEPT !.writes = @ + 1] ELSE cyc
    /\ pc' = CASE pc = "wr_cmd" -> "wr_wait2"
               [] pc = "wr_addr" -> "wr_wait3"
               [] pc = "wr_val" -> "wr_wait4"
    /\ touched' = TRUE
    /\ UNCHANGED <<caller, build, hist, locals, params, harness, proc, cycle>>

DoReturnNoLatch ==
    /\ pc = "wr_ret"
    /\ prev_duty' = prev_duty
    /\ pc' = IF caller = "write" THEN "sleep" ELSE "done"
    /\ caller' = "none"
    /\ ev' = NoEvent
    /\ UNCHANGED <<build, hist, cpu_temp, gpu_temp, temp_cur, temp_max,
                   new_duty, raw_rpm_hi, rpms, fan_duty, old_duty, params,
                   harness, proc, touched, ops, cyc, cycle>>

\* ec_io_do and ec_write_fan_duty return; main: prev_duty = new_duty;
DoReturn ==
    /\ pc = "wr_ret"
    /\ prev_duty' = IF caller = "write" THEN new_duty ELSE prev_duty
    /\ pc' = IF caller = "write" THEN "sleep" ELSE "done"
    /\ caller' = "none"
    /\ ev' = NoEvent
    /\ UNCHANGED <<build, hist, cpu_temp, gpu_temp, temp_cur, temp_max,
                   new_duty, raw_rpm_hi, rpms, fan_duty, old_duty, params,
                   harness, proc, touched, ops, cyc, cycle>>

\* a call of ec_io_read(port) from `site`
CallRead(site, port) ==
    /\ caller' = site
    /\ reg' = port
    /\ pc' = "rd_wait1"
    /\ ops' = <<>>
    /\ ev' = NoEvent
    /\ UNCHANGED <<cmd, value, last_written>>

\* a call of ec_write_fan_duty(duty_percentage) from `site`: the clamp, the
\* conversion to a byte, and the call ec_io_do(0x99, 0x01, v_i)
ec_write_fan_duty(duty_percentage, site) ==
    /\ caller' = site
    /\ cmd' = FAN_DUTY_CMD
    /\ reg' = FAN_DUTY_PORT
    /\ value' = fan_duty_byte_tab[duty_percentage]
    /\ last_written' = duty_percentage
    /\ pc' = "wr_wait1"
    /\ ops' = <<>>
    /\ ev' = NoEvent

(***************************************************************************)
(* main: the control loop.                                                 *)
(***************************************************************************)
RECURSIVE ScanMaxShort(_, _, _)
ScanMaxShort(h, i, acc) ==
    IF i >= TEMP_HISTORY_LEN - 1 THEN acc
    ELSE ScanMaxShort(h, i + 1, max(acc, h[i]))

\* the maximum over all slots, starting from 0
RECURSIVE ScanMax(_, _, _)
ScanMax(h, i, acc) ==
    IF i >= TEMP_HISTORY_LEN THEN acc ELSE ScanMax(h, i + 1, max(acc, h[i]))

\* temp_to_duty over the one-byte temperatures, tabulated
temp_to_duty_tab == [t \in 0..255 |-> temp_to_duty(t)]

\* max(ec_query_cpu_temp(), ec_query_gpu_temp()): the two calls, in either
\* order (the order of evaluation of the arguments is unspecified)
QueryTemp(site) ==
    /\ pc = "sample"
    /\ site \in {"cpu", "gpu"}
    /\ IF site = "cpu" THEN cpu_temp = -1 ELSE gpu_temp = -1
    /\ CallRead(site, IF site = "cpu" THEN EC_REG_CPU_TEMP ELSE EC_REG_GPU_TEMP)
    /\ cyc' = IF site = "cpu" THEN [cyc EXCEPT !.cpu = @ + 1]
              ELSE [cyc EXCEPT !.gpu = @ + 1]
    /\ UNCHANGED <<build, hist, locals, harness, proc, touched, cycle>>

LogAndComputeAveraged ==
    /\ pc = "sample"
    /\ cpu_temp # -1 /\ gpu_temp # -1
    /\ LET cur == (max(cpu_temp, gpu_temp) + temp_cur) \div 2
           h == [temp_history EXCEPT ![temp_history_pos] = cur]
           m == ScanMax(h, 0, 0)
       IN  /\ temp_cur' = cur
           /\ temp_history' = h
           /\ temp_history_pos' = (temp_history_pos + 1) % TEMP_HISTORY_LEN
           /\ temp_max' = m
           /\ new_duty' = temp_to_duty_tab[m]
           /\ recent' = Append(Tail(recent), cur)
    /\ cpu_temp' = -1 /\ gpu_temp' = -1
    /\ pc' = IF print_state = 1 THEN "print" ELSE "decide"
    /\ ev' = NoEvent
    /\ ops' = <<>>
    /\ UNCHANGED <<caller, build, prev_duty, raw_rpm_hi, rpms, fan_duty,
                   old_duty, params, harness, proc, touched, cyc, cycle>>

LogAndComputeNoReset ==
    /\ pc = "sample"
    /\ cpu_temp # -1 /\ gpu_temp # -1
    /\ LET cur == max(cpu_temp, gpu_temp)
           h == [temp_history EXCEPT ![temp_history_pos] = cur]
           m == ScanMax(h, 0, temp_max)
       IN  /\ temp_cur' = cur
           /\ temp_history' = h
           /\ temp_history_pos' = (temp_history_pos + 1) % TEMP_HISTORY_LEN
           /\ temp_max' = m
           /\ new_duty' = temp_to_duty_tab[m]
           /\ recent' = Append(Tail(recent), cur)
    /\ cpu_temp' = -1 /\ gpu_temp' = -1
    /\ pc' = IF print_state = 1 THEN "print" ELSE "decide"
    /\ ev' = NoEvent
    /\ ops' = <<>>
    /\ UNCHANGED <<caller, build, prev_duty, raw_rpm_hi, rpms, fan_duty,
                   old_duty, params, harness, proc, touched, cyc, cycle>>

LogAndComputeNoHold ==
    /\ pc = "sample"
    /\ cpu_temp # -1 /\ gpu_temp # -1
    /\ LET cur == max(cpu_temp, gpu_temp)
           h == [temp_history EXCEPT ![temp_history_pos] = cur]
           m == ScanMax(h, 0, 0)
       IN  /\ temp_cur' = cur
           /\ temp_history' = h
           /\ temp_history_pos' = (temp_history_pos + 1) % TEMP_HISTORY_LEN
           /\ temp_max' = m
           /\ new_duty' = temp_to_duty_tab[cur]
           /\ recent' = Append(Tail(recent), cur)
    /\ cpu_temp' = -1 /\ gpu_temp' = -1
    /\ pc' = IF print_state = 1 THEN "print" ELSE "decide"
    /\ ev' = NoEvent
    /\ ops' = <<>>
    /\ UNCHANGED <<caller, build, prev_duty, raw_rpm_hi, rpms, fan_duty,
                   old_duty, params, harness, proc, touched, cyc, cycle>>

LogAndComputeNoWrap ==
    /\ pc = "sample"
    /\ cpu_temp # -1 /\ gpu_temp # -1
    /\ LET cur == max(cpu_temp, gpu_temp)
           h == [temp_history EXCEPT ![temp_history_pos] = cur]
           m == ScanMax(h, 0, 0)
       IN  /\ temp_cur' = cur
           /\ temp_history' = h
           /\ temp_history_pos' = temp_history_pos + 1
           /\ temp_max' = m
           /\ new_duty' = temp_to_duty_tab[m]
           /\ recent' = Append(Tail(recent), cur)
    /\ cpu_temp' = -1 /\ gpu_temp' = -1
    /\ pc' = IF print_state = 1 THEN "print" ELSE "decide"
    /\ ev' = NoEvent
    /\ ops' = <<>>
    /\ UNCHANGED <<caller, build, prev_duty, raw_rpm_hi, rpms, fan_duty,
                   old_duty, params, harness, proc, touched, cyc, cycle>>

\* temp_cur = max(...); temp_history[temp_history_pos++] = temp_cur;
\* temp_history_pos %= TEMP_HISTORY_LEN; temp_max over all slots;
\* new_duty = temp_to_duty(temp_max)
LogAndCompute ==
    /\ pc = "sample"
    /\ cpu_temp # -1 /\ gpu_temp # -1
    /\ LET cur == max(cpu_temp, gpu_temp)
           h == [temp_history EXCEPT ![temp_history_pos] = cur]
           m == ScanMax(h, 0, 0)
       IN  /\ temp_cur' = cur
           /\ temp_history' = h
           /\ temp_history_pos' = (temp_history_pos + 1) % TEMP_HISTORY_LEN
           /\ temp_max' = m
           /\ new_duty' = temp_to_duty_tab[m]
           /\ recent' = Append(Tail(recent), cur)
    /\ cpu_temp' = -1 /\ gpu_temp' = -1
    /\ pc' = IF print_state = 1 THEN "print" ELSE "decide"
    /\ ev' = NoEvent
    /\ ops' = <<>>
    /\ UNCHANGED <<caller, build, prev_duty, raw_rpm_hi, rpms, fan_duty,
                   old_duty, params, harness, proc, touched, cyc, cycle>>

\* the printf arguments ec_query_fan_rpms() and ec_query_fan_duty(), in either
\* order; ec_query_fan_rpms reads the high byte first
QueryDiag(site) ==
    /\ pc = "print"
    /\ site \in {"rpm_hi", "fan_duty"}
    /\ IF site = "rpm_hi" THEN rpms = -1 ELSE fan_duty = -1
    /\ CallRead(site, IF site = "rpm_hi" THEN EC_REG_FAN_RPMS_HI
                      ELSE EC_REG_FAN_DUTY)
    /\ cyc' = IF site = "rpm_hi" THEN [cyc EXCEPT !.rpm = @ + 1]
              ELSE [cyc EXCEPT !.duty = @ + 1]
    /\ UNCHANGED <<build, hist, locals, harness, proc, touched, cycle>>

\* ec_query_fan_rpms: int raw_rpm_lo = ec_io_read(EC_REG_FAN_RPMS_LO);
QueryRpmLo ==
    /\ pc = "query_rpm_lo"
    /\ CallRead("rpm_lo", EC_REG_FAN_RPMS_LO)
    /\ UNCHANGED <<build, hist, locals, harness, proc, touched, cyc, cycle>>

PrintStateSyncsLatch ==
    /\ pc = "print"
    /\ rpms # -1 /\ fan_duty # -1
    /\ ev' = [NoEvent EXCEPT !.op = "printf_state"]
    /\ prev_duty' = fan_duty
    /\ rpms' = -1 /\ fan_duty' = -1 /\ raw_rpm_hi' = 0
    /\ pc' = "decide"
    /\ ops' = <<>>
    /\ UNCHANGED <<caller, build, hist, cpu_temp, gpu_temp,
                   temp_cur, temp_max, new_duty, old_duty, params, harness,
                   proc, touched, cyc, cycle>>

\* printf("temp=%2d..., fan: %4drpm/%3d%% -> set %3d%%\n", ...)
PrintState ==
    /\ pc = "print"
    /\ rpms # -1 /\ fan_duty # -1
    /\ ev' = [NoEvent EXCEPT !.op = "printf_state"]
    /\ rpms' = -1 /\ fan_duty' = -1 /\ raw_rpm_hi' = 0
    /\ pc' = "decide"
    /\ ops' = <<>>
    /\ UNCHANGED <<caller, build, hist, prev_duty, cpu_temp, gpu_temp,
                   temp_cur, temp_max, new_duty, old_duty, params, harness,
                   proc, touched, cyc, cycle>>

WriteDutyAlways ==
    /\ pc = "decide"
    /\ ec_write_fan_duty(new_duty, "write")
    /\ UNCHANGED <<build, hist, locals, harness, proc, touched, cyc, cycle>>

\* if (new_duty != prev_duty) { ec_write_fan_duty(new_duty); ... }
\* and otherwise straight to usleep
WriteDuty ==
    /\ pc = "decide"
    /\ IF new_duty # prev_duty
       THEN ec_write_fan_duty(new_duty, "write")
       ELSE /\ pc' = "sleep"
            /\ ev' = NoEvent
            /\ UNCHANGED <<caller, params, ops>>
    /\ UNCHANGED <<build, hist, locals, harness, proc, touched, cyc, cycle>>

\* usleep(1000 * 1000 / RATE); and the next iteration of while (1)
Sleep ==
    /\ pc = "sleep"
    /\ pc' = "sample"
    /\ old_duty' = new_duty
    /\ cyc' = NewCycle(last_written)
    /\ cycle' = 2
    /\ ev' = NoEvent
    /\ ops' = <<>>
    /\ UNCHANGED <<caller, build, hist, prev_duty, cpu_temp, gpu_temp,
                   temp_cur, temp_max, new_duty, raw_rpm_hi, rpms, fan_duty,
                   params, harness, proc, touched>>

Next ==
    \/ CleanHistory
    \/ \E r1, r2 \in IopermResults : MapPorts(r1, r2)
    \/ \E site \in {"cpu", "gpu"} : QueryTemp(site)
    \/ \E hit \in HitTimes : ReadWait(hit)
    \/ ReadOut
    \/ \E b \in Temps \cup DiagBytes : ReadIn(b)
    \/ LogAndCompute
    \/ \E site \in {"rpm_hi", "fan_duty"} : QueryDiag(site)
    \/ QueryRpmLo
    \/ PrintState
    \/ WriteDuty
    \/ \E hit \in HitTimes : DoWait(hit)
    \/ DoOut
    \/ DoReturn
    \/ Sleep

Spec == Init /\ [][Next]_vars
\* the process is scheduled again and again: it always takes its next step
FairSpec == Spec /\ WF_vars(Next)

(***************************************************************************)
(* Harnesses: one function applied to an input drawn from a bounded set.   *)
(***************************************************************************)
\* temp_to_duty(arg) for every one-byte temperature
InitCurve ==
    /\ pc = "call_curve"
    /\ print_state = 0
    /\ Boot
    /\ arg \in 0..255

ApplyCurve ==
    /\ pc = "call_curve"
    /\ result' = temp_to_duty(arg)
    /\ pc' = "done"
    /\ UNCHANGED <<caller, build, hist, locals, params, arg, proc, touched,
                   ev, ops, cyc, cycle>>

NextCurve == ApplyCurve

SpecCurve == InitCurve /\ [][NextCurve]_vars

\* ec_write_fan_duty(arg) for every duty request
InitWrite ==
    /\ pc = "call_write"
    /\ print_state = 0
    /\ Boot
    /\ arg \in Requests

ApplyWrite ==
    /\ pc = "call_write"
    /\ ec_write_fan_duty(arg, "harness")
    /\ UNCHANGED <<build, hist, locals, harness, proc, touched, cyc, cycle>>

NextWrite ==
    \/ ApplyWrite
    \/ \E hit \in HitTimes : DoWait(hit)
    \/ DoOut
    \/ DoReturn

SpecWrite == InitWrite /\ [][NextWrite]_vars

\* ec_io_read(arg) for each register of the program
InitRead ==
    /\ pc = "call_read"
    /\ print_state = 0
    /\ Boot
    /\ arg \in {EC_REG_CPU_TEMP, EC_REG_GPU_TEMP, EC_REG_FAN_DUTY,
                EC_REG_FAN_RPMS_HI, EC_REG_FAN_RPMS_LO}

ApplyRead ==
    /\ pc = "call_read"
    /\ CallRead("harness", arg)
    /\ UNCHANGED <<build, hist, locals, harness, proc, touched, cyc, cycle>>

NextRead ==
    \/ ApplyRead
    \/ \E hit \in HitTimes : ReadWait(hit)
    \/ ReadOut
    \/ \E b \in 0..255 : ReadIn(b)

SpecRead == InitRead /\ [][NextRead]_vars

(***************************************************************************)
(* Properties.                                                             *)
(***************************************************************************)
\* C1 (write suppression): a cycle sends a duty byte to the EC at most once,
\* and at the end of the cycle it has sent one if and only if the duty it
\* computed differs from the duty last written before the cycle; the second of
\* two consecutive cycles that compute the same duty sends none.
C1_WriteSuppression ==
    /\ cyc.writes \in {0, 1}
    /\ (cyc.writes = 1 => new_duty # cyc.before /\ last_written = new_duty)
    /\ (pc = "sleep" => (cyc.writes = 1 <=> new_duty # cyc.before))
    /\ (pc = "sleep" /\ cycle = 2 /\ new_duty = old_duty => cyc.writes = 0)

\* a second cycle that computed the duty of the cycle before it and wrote nothing
C1_Witness ==
    /\ pc = "sleep" /\ cycle = 2
    /\ new_duty = old_duty /\ last_written = new_duty
    /\ cyc.writes = 0

\* C2 (first-cycle write): the first cycle after a successful startup ends
\* with exactly one duty write, whatever was sampled, and no one-byte
\* temperature maps to the initial prev_duty of -1.
C2_FirstCycleWrites ==
    /\ (cycle = 1 /\ pc = "sleep" => cyc.writes = 1 /\ last_written = new_duty)
    /\ (cycle = 1 /\ pc \in {"sample", "print", "decide", "rd_wait1"}
            => prev_duty = -1)
    /\ \A t \in 0..255 : temp_to_duty_tab[t] # -1

\* the first cycle computed the lowest duty and wrote it
C2_Witness ==
    /\ cycle = 1 /\ pc = "sleep"
    /\ new_duty = MIN_DUTY /\ cyc.writes = 1

Zeros(n) == [k \in 1..n |-> 0]

\* C3 (history window aging): when the last TEMP_HISTORY_LEN pushes are one
\* sample S > 0 followed by j zeros, j < TEMP_HISTORY_LEN, and zeros before
\* it, the windowed maximum is S; when they are all zero it is 0.
C3_WindowAging ==
    /\ \A S \in Temps \ {0} : \A j \in 0..(TEMP_HISTORY_LEN - 1) :
           recent = Zeros(TEMP_HISTORY_LEN - 1 - j) \o <<S>> \o Zeros(j)
               => temp_max = S
    /\ (recent = Zeros(TEMP_HISTORY_LEN) => temp_max = 0)

\* a spike followed by TEMP_HISTORY_LEN - 1 zero pushes still is the maximum
C3_Witness ==
    /\ cycle = 2 /\ pc = "decide"
    /\ recent = <<55>> \o Zeros(TEMP_HISTORY_LEN - 1)
    /\ temp_max = 55

\* the wait for OBF of a register read has just ended without the flag set
ObfNeverSet ==
    /\ pc = "rd_data"
    /\ ev.op = "wait" /\ ev.flag = OBF /\ ev.want = 1
    /\ FlagOf(ev.val, OBF) # 1

\* C4, as claimed: when OBF never sets, the wait for OBF polls the status
\* port exactly 100 times, warns and returns.
C4_HundredPolls == ObfNeverSet => ev.polls = WAIT_LIMIT /\ ev.warned

\* C4 (handshake timeout), amended: when OBF never sets, the wait for OBF
\* reads the status port exactly 101 times (one first read and 100 re-polls),
\* prints the warning and returns to the read, which goes on to the data port.
C4_HandshakeTimeout ==
    ObfNeverSet => /\ ev.polls = WAIT_LIMIT + 1
                   /\ ev.i = WAIT_LIMIT + 1
                   /\ ev.warned

\* a read whose wait for OBF timed out and that is about to read the data port
C4_Witness == ObfNeverSet /\ ev.warned /\ Len(ops) = 5

\* clamp(d, 10, 100)
ClampDuty(d) == IF d < 10 THEN 10 ELSE IF d > 100 THEN 100 ELSE d

\* C5 (clamp on write): the value byte ec_write_fan_duty(d) sends to the data
\* port is trunc(clamp(d, 10, 100) * 255 / 100), in 25..255; 3 sends the byte
\* of 10 and 150 the byte of 100.
C5_ClampOnWrite ==
    pc = "wr_wait4" =>
        /\ ev.op = "outb" /\ ev.port = EC_DATA
        /\ ev.val = (ClampDuty(arg) * 255) \div 100
        /\ ev.val \in 25..255
        /\ (arg = 3 => ev.val = 25)
        /\ (arg = 150 => ev.val = 255)

\* the request of 3 has been sent as 25
C5_Witness == pc = "wr_wait4" /\ arg = 3 /\ ev.val = 25 /\ Len(ops) = 6

\* C6 (curve monotonicity): temp_to_duty(arg) is at most the duty of every
\* higher one-byte temperature and at least that of every lower one.
C6_Monotonic ==
    pc = "done" =>
        \A t \in 0..255 :
            /\ (arg < t => result <= temp_to_duty_tab[t])
            /\ (t < arg => temp_to_duty_tab[t] <= result)

\* a temperature inside the ramp, strictly between its neighbours' duties
C6_Witness ==
    /\ pc = "done" /\ arg = 60
    /\ temp_to_duty_tab[59] < result /\ result < temp_to_duty_tab[61]

\* C7 (curve bounds): at or below MIN_DUTY_TEMP the duty is MIN_DUTY, at or
\* above MAX_DUTY_TEMP it is MAX_DUTY, and it always lies in [MIN_DUTY, MAX_DUTY].
C7_CurveBounds ==
    pc = "done" =>
        /\ (arg <= MIN_DUTY_TEMP => result = MIN_DUTY)
        /\ (arg >= MAX_DUTY_TEMP => result = MAX_DUTY)
        /\ MIN_DUTY <= result /\ result <= MAX_DUTY

\* the coldest temperature got the minimum duty
C7_Witness == pc = "done" /\ arg = 0 /\ result = MIN_DUTY

\* y * (maxDuty - minDuty) + minDuty over the rationals, truncated, with
\* x = m / span, y = x * (x + 1/5) / (1 + 1/5):
\* y = m * (5 * m + span) / (6 * span^2)
ExactDuty(t) ==
    LET span == MAX_DUTY_TEMP - MIN_DUTY_TEMP
        d == t - MIN_DUTY_TEMP
        m == IF d < 0 THEN 0 ELSE IF d > span THEN span ELSE d
    IN  (m * (5 * m + span) * (MAX_DUTY - MIN_DUTY)
             + MIN_DUTY * 6 * span * span) \div (6 * span * span)

\* C8 (curve value and truncation): temp_to_duty(arg) is the truncation of
\* the exact value of the curve, and temp_to_duty(55) = 36.
C8_CurveValue ==
    pc = "done" =>
        /\ result = ExactDuty(arg)
        /\ (arg = 55 => result = 36)

\* the worked example, whose exact value 36.25 is truncated
C8_Witness == pc = "done" /\ arg = 55 /\ result = 36

\* C9 (fatal startup): a failed ioperm ends the process with status 1 and the
\* diagnostic, before the loop and before any port I/O; port I/O happens only
\* after exactly one successful ioperm of each port.
C9_FatalStartup ==
    /\ ((\E k \in 1..Len(ioperm_calls) : ioperm_calls[k][2] # 0)
            => /\ pc = "exit" /\ exit_status = 1
               /\ ev.op = "printf_fatal"
               /\ cycle = 0 /\ ~touched)
    /\ (exit_status # -1 => pc = "exit" /\ ~touched /\ cycle = 0)
    /\ (touched \/ cycle >= 1
            => /\ ioperm_calls = <<<<EC_DATA, 0>>, <<EC_SC, 0>>>>
               /\ granted = {EC_DATA, EC_SC}
               /\ exit_status = -1)

\* the second ioperm failed and the process has exited
C9_Witness ==
    /\ pc = "exit" /\ exit_status = 1
    /\ ioperm_calls = <<<<EC_DATA, 0>>, <<EC_SC, -1>>>>

\* C10 (no failure mode of the loop): once in the loop the process never
\* exits; every cycle reaches its sleep having made each of its queries once,
\* also when waits timed out, and every sleep is followed by the next cycle.
C10_LoopNeverFails ==
    /\ [](cycle >= 1 => exit_status = -1 /\ pc # "exit")
    /\ [](pc = "sleep" => /\ cyc.cpu = 1 /\ cyc.gpu = 1
                          /\ cyc.rpm = print_state /\ cyc.duty = print_state)
    /\ ((cycle >= 1 /\ pc # "sleep") ~> (pc = "sleep"))
    /\ ((pc = "sleep") ~> (pc = "sample" /\ cyc.cpu = 0 /\ cyc.gpu = 0))

\* a cycle in which a wait of a temperature read timed out reached its sleep
C10_Witness == pc = "sleep" /\ cycle = 2 /\ cyc.degraded /\ cyc.writes = 1

\* the port operations of ec_io_read(r) that returns the byte b
ReadSeq(r, b) ==
    << [op |-> "wait", a |-> IBF, b |-> 0],
       [op |-> "outb", a |-> EC_SC_READ_CMD, b |-> EC_SC],
       [op |-> "wait", a |-> IBF, b |-> 0],
       [op |-> "outb", a |-> r, b |-> EC_DATA],
       [op |-> "wait", a |-> OBF, b |-> 1],
       [op |-> "inb", a |-> EC_DATA, b |-> b] >>

\* the number of port operations a read has completed at a location
ReadPos ==
    [l \in {"rd_wait1", "rd_cmd", "rd_wait2", "rd_addr", "rd_wait3", "rd_data"}
        |-> CASE l = "rd_wait1" -> 0 [] l = "rd_cmd" -> 1 [] l = "rd_wait2" -> 2
              [] l = "rd_addr" -> 3 [] l = "rd_wait3" -> 4 [] l = "rd_data" -> 5]

\* C11 (read handshake order): at every point of a register read the port
\* operations made so far are the first ones of: wait IBF clear, 0x80 to the
\* command port, wait IBF clear, the register address to the data port, wait
\* OBF set, one read of the data port; a finished read has made all six and
\* handed the byte read to its caller.
C11_ReadOrder ==
    /\ (pc \in DOMAIN ReadPos => ops = SubSeq(ReadSeq(reg, 0), 1, ReadPos[pc]))
    /\ (ev.op = "inb" =>
            /\ ops = ReadSeq(reg, ev.val)
            /\ (reg = EC_REG_CPU_TEMP => cpu_temp = ev.val)
            /\ (reg = EC_REG_GPU_TEMP => gpu_temp = ev.val)
            /\ (reg = EC_REG_FAN_RPMS_HI => raw_rpm_hi = ev.val)
            /\ (reg = EC_REG_FAN_RPMS_LO => rpms = fan_rpms(raw_rpm_hi, ev.val))
            /\ (reg = EC_REG_FAN_DUTY => fan_duty = fan_duty_percent_tab[ev.val]))

\* a read of the GPU register has returned 55
C11_Witness ==
    /\ ev.op = "inb" /\ reg = EC_REG_GPU_TEMP
    /\ ev.val = 55 /\ gpu_temp = 55 /\ Len(ops) = 6

\* the port operations of ec_io_do(c, r, v)
WriteSeq(c, r, v) ==
    << [op |-> "wait", a |-> IBF, b |-> 0],
       [op |-> "outb", a |-> c, b |-> EC_SC],
       [op |-> "wait", a |-> IBF, b |-> 0],
       [op |-> "outb", a |-> r, b |-> EC_DATA],
       [op |-> "wait", a |-> IBF, b |-> 0],
       [op |-> "outb", a |-> v, b |-> EC_DATA],
       [op |-> "wait", a |-> IBF, b |-> 0] >>

\* the number of port operations a write has completed at a location
WritePos ==
    [l \in {"wr_wait1", "wr_cmd", "wr_wait2", "wr_addr", "wr_wait3", "wr_val",
            "wr_wait4", "wr_ret"}
        |-> CASE l = "wr_wait1" -> 0 [] l = "wr_cmd" -> 1 [] l = "wr_wait2" -> 2
              [] l = "wr_addr" -> 3 [] l = "wr_wait3" -> 4 [] l = "wr_val" -> 5
              [] l = "wr_wait4" -> 6 [] l = "wr_ret" -> 7]

\* C12 (write handshake order): at every point of a register write the port
\* operations made so far are the first ones of: wait IBF clear, the command
\* to the command port, wait, the address to the data port, wait, the value
\* to the data port, wait; the write returns only with all seven made, three
\* port writes and four waits.
C12_WriteOrder ==
    /\ (pc \in DOMAIN WritePos
            => ops = SubSeq(WriteSeq(cmd, reg, value), 1, WritePos[pc]))
    /\ (pc = "wr_ret" => ev.op = "wait")
    /\ (pc = "sleep" /\ cyc.writes = 1 =>
            /\ ops = WriteSeq(FAN_DUTY_CMD, FAN_DUTY_PORT, fan_duty_byte_tab[new_duty])
            /\ Cardinality({k \in 1..Len(ops) : ops[k].op = "outb"}) = 3
            /\ Cardinality({k \in 1..Len(ops) : ops[k].op = "wait"}) = 4)

\* a duty write of the loop has returned after its seven port operations
C12_Witness ==
    /\ pc = "sleep" /\ cyc.writes = 1
    /\ Len(ops) = 7 /\ ops[6].a = fan_duty_byte_tab[36]

\* the largest of 0 and the elements of a sequence
SeqMax(q) ==
    CHOOSE m \in {0} \cup {q[k] : k \in 1..Len(q)} :
        \A k \in 1..Len(q) : q[k] <= m

\* the duty of the samples of the window, computed from the samples alone
RefDuty == temp_to_duty_tab[SeqMax(recent)]

\* a step of the diagnostics: the two queries of the status line and the line
DiagStep ==
    \/ pc \in {"print", "query_rpm_lo"}
    \/ caller \in {"rpm_hi", "rpm_lo", "fan_duty"}

\* C13 (diagnostics never drive control): with PRINT_STATE on or off and
\* whatever the fan registers return, a cycle writes if and only if the duty
\* of its window of samples differs from the duty written last, and it writes
\* that duty; no step of the diagnostics changes the history, the duties or
\* the latch.
C13_DiagnosticsInert ==
    /\ [](pc = "sleep" =>
            /\ (cyc.writes = 1 <=> RefDuty # cyc.before)
            /\ (cyc.writes = 1 => /\ last_written = RefDuty
                                  /\ value = fan_duty_byte_tab[RefDuty]))
    /\ [][DiagStep => UNCHANGED <<temp_history, temp_history_pos, recent,
                                  prev_duty, temp_cur, temp_max, new_duty,
                                  value, last_written>>
                      /\ cyc'.writes = cyc.writes]_vars

\* the registers report a fan at 100 % while the loop holds the minimum duty
\* it wrote before
C13_Witness ==
    /\ pc = "print" /\ print_state = 1 /\ cycle = 2
    /\ fan_duty = 100 /\ rpms # -1
    /\ new_duty = MIN_DUTY /\ prev_duty = MIN_DUTY

\* the step that pushes the sample of a cycle
PushStep == pc = "sample" /\ pc' \in {"print", "decide"}

\* C14 (temperature sampler): in every cycle ec_io_read is called once for
\* the CPU register and once for the GPU register, the two bytes read are the
\* arguments of max, and the sample stored at the cursor is the larger byte.
C14_Sampler ==
    /\ [](/\ cyc.cpu \in {0, 1} /\ cyc.gpu \in {0, 1}
          /\ (pc \in {"print", "decide", "sleep"} => cyc.cpu = 1 /\ cyc.gpu = 1)
          /\ (ev.op = "inb" /\ reg = EC_REG_CPU_TEMP => cpu_temp = ev.val)
          /\ (ev.op = "inb" /\ reg = EC_REG_GPU_TEMP => gpu_temp = ev.val))
    /\ [][PushStep =>
            /\ cyc.cpu = 1 /\ cyc.gpu = 1
            /\ temp_cur' = IF cpu_temp >= gpu_temp THEN cpu_temp ELSE gpu_temp
            /\ temp_history'[temp_history_pos] = temp_cur'
            /\ recent'[TEMP_HISTORY_LEN] = temp_cur']_vars

\* a cycle that pushed 55, the larger byte it read, after a cycle that
\* sampled 0
C14_Witness ==
    /\ pc \in {"print", "decide"} /\ ev.op = "none" /\ cycle = 2
    /\ cyc.cpu = 1 /\ cyc.gpu = 1
    /\ temp_cur = 55 /\ recent[TEMP_HISTORY_LEN - 1] = 0

\* C15 (window equals last-N reference): the windowed maximum is the largest
\* of 0 and the last TEMP_HISTORY_LEN samples pushed (zeros standing for the
\* pushes not yet made), whatever was pushed before them.
C15_WindowIsLastN ==
    /\ temp_max = SeqMax(recent)
    /\ \A s \in Slots : \E k \in 1..TEMP_HISTORY_LEN : temp_history[s] = recent[k]
    /\ \A k \in 1..TEMP_HISTORY_LEN : \E s \in Slots : temp_history[s] = recent[k]

\* a window whose oldest and newest samples are 0 around a sample of 55
C15_Witness ==
    /\ pc = "decide" /\ cycle = 2
    /\ recent[1] = 0 /\ recent[TEMP_HISTORY_LEN] = 0
    /\ temp_max = 55

\* C16 (degraded read is used like a normal one): a wait of a read that timed
\* out is followed by the next operation of the read, which is neither begun
\* again nor cut short; the read makes its one read of the data port and
\* returns the byte, and the cycle pushes the sample and computes the duty
\* from the window as always.
C16_DegradedRead ==
    /\ (ev.op = "wait" /\ ev.warned /\ pc \in DOMAIN ReadPos =>
            /\ pc \in {"rd_cmd", "rd_addr", "rd_data"}
            /\ ReadPos[pc] = Len(ops))
    /\ (cyc.degraded /\ ev.op = "inb" =>
            /\ Len(ops) = 6
            /\ Cardinality({k \in 1..Len(ops) : ops[k].op = "inb"}) = 1
            /\ ops[6].b = ev.val
            /\ (reg = EC_REG_CPU_TEMP => cpu_temp = ev.val)
            /\ (reg = EC_REG_GPU_TEMP => gpu_temp = ev.val))
    /\ (cyc.degraded /\ pc \in {"print", "decide", "sleep"} =>
            /\ cyc.cpu = 1 /\ cyc.gpu = 1
            /\ recent[TEMP_HISTORY_LEN] = temp_cur
            /\ temp_history[(temp_history_pos + TEMP_HISTORY_LEN - 1)
                                % TEMP_HISTORY_LEN] = temp_cur
            /\ temp_max = SeqMax(recent)
            /\ new_duty = temp_to_duty_tab[temp_max])

\* a first cycle with a timed-out wait in a temperature read pushed the 55 it
\* read and computed 36 from it
C16_Witness ==
    /\ cyc.degraded /\ pc = "decide" /\ cycle = 1
    /\ temp_cur = 55 /\ new_duty = 36

\* C17 (warning precision), as claimed: a wait prints the warning if and only
\* if none of its polls showed the awaited value; the loop ends at the first
\* poll that shows it, so that is when the last byte read does not show it.
C17_WarningPrecise ==
    ev.op = "wait" => (ev.warned <=> FlagOf(ev.val, ev.flag) # ev.want)

\* a wait whose last permitted poll showed the awaited value, and that warned
C17_Witness ==
    /\ ev.op = "wait" /\ ev.warned
    /\ FlagOf(ev.val, ev.flag) = ev.want
    /\ ev.polls = WAIT_LIMIT + 1 /\ ev.i = WAIT_LIMIT

\* some sample has been pushed
Pushed == cycle = 2 \/ temp_history_pos # 0

\* C18 (hold after a hot sample): once a sample was pushed, the target duty
\* is at least the duty of each of the last TEMP_HISTORY_LEN samples (zeros
\* before the first push), the sample of the cycle itself included.
C18_HoldAfterHot ==
    Pushed =>
        /\ \A k \in 1..TEMP_HISTORY_LEN : new_duty >= temp_to_duty_tab[recent[k]]
        /\ new_duty >= temp_to_duty_tab[temp_cur]

\* the cycle sampled 0 and still holds the duty of the 55 sampled
\* TEMP_HISTORY_LEN - 1 cycles before
C18_Witness ==
    /\ pc = "decide" /\ cycle = 2
    /\ temp_cur = 0 /\ recent[1] = 55
    /\ new_duty = temp_to_duty_tab[55]

\* C19 (last-written-duty latch): when the loop sleeps prev_duty is the duty
\* the cycle computed; after its initialisation prev_duty changes only on the
\* return of the one duty write of a cycle, to the duty given to that write.
C19_Latch ==
    /\ [](pc = "sleep" => prev_duty = new_duty)
    /\ [][prev_duty' # prev_duty =>
            \/ pc = "ioperm" /\ prev_duty' = -1
            \/ /\ pc = "wr_ret" /\ cycle >= 1 /\ cyc.writes = 1
               /\ prev_duty' = last_written
               /\ value = fan_duty_byte_tab[prev_duty']]_vars

\* a cycle that found 10 written, wrote 36 and latched it
C19_Witness ==
    /\ pc = "sleep" /\ cycle = 2 /\ cyc.writes = 1
    /\ cyc.before = MIN_DUTY /\ prev_duty = 36 /\ last_written = 36

\* C20 (circular overwrite frame): the cursor is always in
\* 0..TEMP_HISTORY_LEN-1 and the buffer always has TEMP_HISTORY_LEN slots; a
\* push stores the sample in the slot at the cursor, which held the oldest
\* sample, leaves the other slots alone and advances the cursor by one modulo
\* TEMP_HISTORY_LEN; no other step changes buffer or cursor.
C20_CircularFrame ==
    /\ [](temp_history_pos \in Slots /\ DOMAIN temp_history = Slots)
    /\ [][IF PushStep
          THEN /\ \A s \in Slots \ {temp_history_pos} :
                      temp_history'[s] = temp_history[s]
               /\ temp_history[temp_history_pos] = Head(recent)
               /\ temp_history'[temp_history_pos] = temp_cur'
               /\ temp_history_pos' = (temp_history_pos + 1) % TEMP_HISTORY_LEN
          ELSE UNCHANGED <<temp_history, temp_history_pos>>]_vars

\* the cursor is back at slot 0 after the push of 55 into the last slot
C20_Witness ==
    /\ pc = "decide" /\ cycle = 2 /\ temp_history_pos = 0
    /\ temp_history[TEMP_HISTORY_LEN - 1] = 55 /\ temp_history[0] = 0
    /\ recent[TEMP_HISTORY_LEN] = 55
====
